---- MODULE Spec2Model ----
(***************************************************************************)
(* A model of the alpaca package build engine:                             *)
(*   - RecipeContext.create_package, the build pipeline and its workspace  *)
(*     (src/alpaca/recipes/recipe_context.py), specification Spec;         *)
(*   - RepositoryCache.find_recipe, the recipe lookup                      *)
(*     (src/alpaca/common/repository_cache.py), specification CacheSpec.   *)
(* File names and atoms are sequences of one-character strings, so that    *)
(* splitting and slicing are computed as the code computes them.           *)
(***************************************************************************)
EXTENDS Integers, Sequences, FiniteSets, TLC

VARIABLES
    pc,          \* position of create_package: the stage about to run
    cfg,         \* configuration toggles read by the pipeline
    pre,         \* the workspace root as it was before create_package
    ws,          \* the workspace root on disk
    nsources,    \* len(description.sources)
    nsums,       \* len(description.sha256sums)
    idx,         \* sources processed so far by the loop of _handle_sources
    log,         \* history: stage and hook events in the order they happened
    made,        \* history: directories created by makedirs in this run
    mismatch,    \* history: some obtained source file differed from its checksum
    failed,      \* the stage whose exception is propagating, or "none"
    cleanups,    \* history: calls of _delete_workspace_directories
    archive,     \* the final archive in the output location, or "none"
    result,      \* how create_package ended: "none", "returned", "raised"
    cacheRoot,   \* whether configuration.repository_cache_path exists
    repositories,    \* configuration.repositories, in configured order
    package_streams, \* configuration.package_streams, in configured order
    tree,        \* directory entries of the repositories: <<repo, stream, pkg, entry>>
    findArg,     \* the argument of find_recipe and whether it exists as a path
    searched,    \* history: <<repo, stream>> directories find_recipe looked into
    findResult,  \* what find_recipe did: not called, raised, None or a path
    syncOp,      \* the cache operation running: "none", "update", "reset"
    syncIdx,     \* repository refs the operation's loop has gone through
    clones,      \* the directory of each ref: absent, clean, dirty, corrupt
    clones0,     \* history: the directories before the operation
    gitlog,      \* history: the commands and removals the operation ran
    syncResult,  \* how the operation ended: "none", "returned", "raised"
    ctorPc,      \* position of RecipeContext.__init__
    reads,       \* history: the fields read, with the case each read met
    invoked,     \* history: the fields whose recipe function was invoked
    values,      \* the values of the fields read so far
    description, \* self.description, and whether it is assigned
    ctorResult,  \* how __init__ ended: "none", "constructed", "raised"
    mfPc,        \* position of write_file_info: "idle", "start", "done"
    mfRoot,      \* what the path given to write_file_info is
    mfTree,      \* the entries under that path
    manifest,    \* the .file_info written by the call, and its lines
    mfWrote,     \* history: the entry each line was written for
    mfResult     \* how write_file_info ended: "none", "returned", "raised"

buildVars == <<pc, cfg, pre, ws, nsources, nsums, idx, log, made, mismatch,
               failed, cleanups, archive, result>>
cacheVars == <<cacheRoot, repositories, package_streams, tree, findArg,
               searched, findResult>>
syncVars == <<syncOp, syncIdx, clones, clones0, gitlog, syncResult>>
ctorVars == <<ctorPc, reads, invoked, values, description, ctorResult>>
mfVars == <<mfPc, mfRoot, mfTree, manifest, mfWrote, mfResult>>
vars == <<buildVars, cacheVars, syncVars, ctorVars, mfVars>>

\* No cache operation runs.
SyncIdle ==
    /\ syncOp = "none"
    /\ syncIdx = 0
    /\ clones = <<>>
    /\ clones0 = <<>>
    /\ gitlog = <<>>
    /\ syncResult = "none"

\* No manifest: write_file_info wrote no .file_info.
NoManifest == [written |-> FALSE, lines |-> <<>>]

\* write_file_info is not called.
ManifestIdle ==
    /\ mfPc = "idle"
    /\ mfRoot = "absent"
    /\ mfTree = {}
    /\ manifest = NoManifest
    /\ mfWrote = <<>>
    /\ mfResult = "none"

\* A context whose description is not assigned.
NoDescription == [assigned |-> FALSE, sources |-> 0, sha256sums |-> 0]

\* No RecipeContext is under construction.
CtorIdle ==
    /\ ctorPc = "idle"
    /\ reads = <<>>
    /\ invoked = {}
    /\ values = <<>>
    /\ description = NoDescription
    /\ ctorResult = "none"

(***************************************************************************)
(* Bounds of the model.                                                    *)
(***************************************************************************)
\* The most sources a recipe declares.
MaxSources == 2
\* The most directory entries in the repository tree.
MaxFiles == 2

(***************************************************************************)
(* The workspace of one build.                                             *)
(***************************************************************************)
Bases == {"a", "b"}
\* File contents, named by their sha256; "t1" is a tar archive.
Contents == {"h1", "h2", "t1"}
WorkspaceDirs == {"source", "build", "package"}
EmptyDir == [b \in Bases |-> "none"]

AbsentRoot ==
    [exists |-> FALSE, dirs |-> {}, stale |-> FALSE, source |-> EmptyDir,
     package |-> {}]
\* What makedirs leaves: the root with three empty directories.
FreshRoot ==
    [exists |-> TRUE, dirs |-> WorkspaceDirs, stale |-> FALSE,
     source |-> EmptyDir, package |-> {}]
\* Workspace roots a build can find: none, a root holding a foreign file,
\* a root kept by an earlier build.
PreWorkspaces ==
    { AbsentRoot,
      [exists |-> TRUE, dirs |-> {}, stale |-> TRUE, source |-> EmptyDir,
       package |-> {}],
      [exists |-> TRUE, dirs |-> WorkspaceDirs, stale |-> FALSE,
       source |-> [b \in Bases |-> IF b = "a" THEN "h1" ELSE "none"],
       package |-> {"old"}] }

Configs == [keep_build_directory : BOOLEAN,
            package_delete_workspace : BOOLEAN,
            skip_package_check : BOOLEAN]

Ev(e, s) == <<e, s>>

(***************************************************************************)
(* create_package: the order of the stages and the path of a failure.      *)
(***************************************************************************)
StageOrder == <<"workspace", "sources", "build", "check", "package">>

\* NextStage with the check called before the build.
NextStageCheckFirst(stage) ==
    CASE stage = "workspace" -> "sources"
      [] stage = "sources" -> "check"
      [] stage = "check" -> "build"
      [] stage = "build" -> "package"
      [] OTHER -> "cleanup"

\* The stage create_package calls after `stage` returned normally.
NextStage(stage) ==
    CASE stage = "workspace" -> "sources"
      [] stage = "sources" -> "build"
      [] stage = "build" -> "check"
      [] stage = "check" -> "package"
      [] OTHER -> "cleanup"

\* AfterFailure with the exception swallowed: the next stage runs.
AfterFailureContinues(stage) == NextStage(stage)

\* Where control goes when `stage` raised: the finally block.
AfterFailure(stage) == "cleanup"

\* A stage ended: normally, or by an exception that propagates.
EndStage(stage, ok, events) ==
    /\ log' = log \o events \o <<Ev(IF ok THEN "ok" ELSE "fail", stage)>>
    /\ pc' = IF ok THEN NextStage(stage) ELSE AfterFailure(stage)
    /\ failed' = IF ok THEN failed ELSE stage

(***************************************************************************)
(* _call_script_function: one bash subprocess that sources the recipe,     *)
(* calls the hook if the recipe declares it, then runs the post script.    *)
(***************************************************************************)
\* What the recipe's hook does: not declared; returns 0; returns non-zero
\* (its last command failed); ends the shell with a non-zero status.
HookOutcomes == {"absent", "ok", "ret_nonzero", "exit_nonzero"}

\* Whether the post script of the subprocess is reached.
PostScriptRuns(hook) == hook # "exit_nonzero"

\* The exit status of the subprocess: that of the last command it ran.
ScriptExit(hook, hasPost, postExit) ==
    IF hook = "exit_nonzero" THEN 1
    ELSE IF hasPost THEN postExit
    ELSE IF hook = "ret_nonzero" THEN 1
    ELSE 0

\* ShellCommand.exec with throw_on_error=True raises on a non-zero status.
ShellExecRaises(exit) == exit # 0

\* The hook function ended with a non-zero status, by return or by exit.
HookNonZero(hook) == hook \in {"ret_nonzero", "exit_nonzero"}

\* The hook function itself is invoked only when the recipe declares it; the
\* log keeps whether it ended with a non-zero status.
HookEvents(fn, hook) ==
    <<Ev("subprocess", fn)>>
        \o (IF hook = "absent" THEN <<>> ELSE <<Ev("hook", fn)>>)
        \o (IF HookNonZero(hook) THEN <<Ev("nonzero", fn)>> ELSE <<>>)

(***************************************************************************)
(* _create_workspace_directories                                           *)
(***************************************************************************)
\* WorkspaceCreateOutcome that reuses an existing root instead of raising.
WorkspaceCreateReuses(exists, delete) ==
    IF exists /\ delete THEN "recreate" ELSE "create"

\* What the stage does with the workspace root it finds.
WorkspaceCreateOutcome(exists, delete) ==
    IF exists
    THEN IF delete THEN "recreate" ELSE "raise"
    ELSE "create"

CreateWorkspaceDirectories ==
    /\ pc = "workspace"
    /\ LET outcome == WorkspaceCreateOutcome(ws.exists, cfg.package_delete_workspace)
           start == <<Ev("start", "workspace")>>
       IN  CASE outcome = "raise" ->
                  /\ EndStage("workspace", FALSE, start)
                  /\ UNCHANGED <<ws, made>>
             [] outcome = "recreate" ->
                  /\ EndStage("workspace", TRUE,
                              start \o <<Ev("rmtree", "workspace"),
                                         Ev("makedirs", "workspace")>>)
                  /\ ws' = FreshRoot
                  /\ made' = made \cup {"root"} \cup WorkspaceDirs
             [] OTHER ->
                  /\ EndStage("workspace", TRUE,
                              start \o <<Ev("makedirs", "workspace")>>)
                  \* makedirs adds to what is there: nothing, on this path
                  /\ ws' = [ws EXCEPT !.exists = TRUE, !.dirs = @ \cup WorkspaceDirs]
                  /\ made' = made \cup {"root"} \cup WorkspaceDirs
    /\ UNCHANGED <<cfg, pre, nsources, nsums, idx, mismatch, cleanups, archive,
                   result, cacheVars, syncVars, ctorVars, mfVars>>

(***************************************************************************)
(* _handle_sources and _download_source_file                               *)
(***************************************************************************)
\* How a source string resolves: a URL, an existing file, a file beside
\* the recipe, or none of the three.
SourceKinds == {"url", "path", "recipe_rel", "unresolved"}

\* What the log keeps of a source: whether one of the three branches of
\* _download_source_file took it.
Resolution(kind) == IF kind = "unresolved" THEN "unresolved" ELSE "resolved"

\* The member that extracting the archive "t1" writes into source/.
TarMember == [base |-> "b", content |-> "h1"]

\* is_tarfile
IsTarfile(content) == content = "t1"

\* check_file_hash_from_string: the sha256 of the file equals the string.
CheckFileHash(file, sum) == file # "none" /\ file = sum

\* DownloadRaises that only notices a missing file.
DownloadRaisesIfMissing(file, sum) == file = "none"

\* _download_source_file raises unless the file at source/<basename> passes.
DownloadRaises(file, sum) == ~CheckFileHash(file, sum)

\* source/ after the resolution step of _download_source_file.
Materialize(dir, kind, base, content) ==
    IF kind = "unresolved" THEN dir ELSE [dir EXCEPT ![base] = content]

\* source/ after extract_tar of an accepted archive.
ExtractTar(dir) == [dir EXCEPT ![TarMember.base] = TarMember.content]

\* The stage begins: the length check, and the early return of a recipe
\* that declares no sources.
HandleSourcesBegin ==
    /\ pc = "sources"
    /\ IF nsources # nsums
       THEN /\ EndStage("sources", FALSE, <<Ev("start", "sources")>>)
            /\ UNCHANGED idx
       ELSE IF nsources = 0
       THEN /\ EndStage("sources", TRUE, <<Ev("start", "sources")>>)
            /\ UNCHANGED idx
       ELSE /\ log' = Append(log, Ev("start", "sources"))
            /\ pc' = "download"
            /\ idx' = 0
            /\ UNCHANGED failed
    /\ UNCHANGED <<cfg, pre, ws, nsources, nsums, made, mismatch, cleanups,
                   archive, result, cacheVars, syncVars, ctorVars, mfVars>>

\* One iteration of the loop: resolve, verify, extract.
DownloadSource ==
    /\ pc = "download"
    /\ idx < nsources
    /\ \E kind \in SourceKinds, base \in Bases, content \in Contents,
          sum \in Contents, fetched \in BOOLEAN :
         \* only a download can fail on its own
         /\ (kind # "url" => fetched)
         /\ IF ~fetched
            THEN /\ EndStage("sources", FALSE, <<Ev("source", Resolution(kind))>>)
                 /\ UNCHANGED <<ws, idx, mismatch>>
            ELSE LET dir == Materialize(ws.source, kind, base, content)
                     file == dir[base]
                 IN  /\ mismatch' = (mismatch \/ (file # "none" /\ file # sum))
                     /\ IF DownloadRaises(file, sum)
                        THEN /\ EndStage("sources", FALSE, <<Ev("source", Resolution(kind))>>)
                             /\ ws' = [ws EXCEPT !.source = dir]
                             /\ UNCHANGED idx
                        ELSE /\ ws' = [ws EXCEPT !.source =
                                         IF IsTarfile(file) THEN ExtractTar(dir) ELSE dir]
                             /\ idx' = idx + 1
                             /\ log' = Append(log, Ev("source", Resolution(kind)))
                             /\ pc' = IF idx + 1 = nsources THEN "hook_sources" ELSE "download"
                             /\ UNCHANGED failed
    /\ UNCHANGED <<cfg, pre, nsources, nsums, made, cleanups, archive, result,
                   cacheVars, syncVars, ctorVars, mfVars>>

\* After the loop: the handle_sources hook, in source/.
CallHandleSources ==
    /\ pc = "hook_sources"
    /\ \E hook \in HookOutcomes :
         EndStage("sources", ~ShellExecRaises(ScriptExit(hook, FALSE, 0)),
                  HookEvents("handle_sources", hook))
    /\ UNCHANGED <<cfg, pre, ws, nsources, nsums, idx, made, mismatch, cleanups,
                   archive, result, cacheVars, syncVars, ctorVars, mfVars>>

(***************************************************************************)
(* _handle_build, _handle_check, _handle_package                           *)
(***************************************************************************)
HandleBuild ==
    /\ pc = "build"
    /\ \E hook \in HookOutcomes :
         EndStage("build", ~ShellExecRaises(ScriptExit(hook, FALSE, 0)),
                  <<Ev("start", "build")>> \o HookEvents("handle_build", hook))
    /\ UNCHANGED <<cfg, pre, ws, nsources, nsums, idx, made, mismatch, cleanups,
                   archive, result, cacheVars, syncVars, ctorVars, mfVars>>

\* CheckSkipped that ignores the toggle.
CheckNeverSkipped(skip) == FALSE

\* if self.configuration.skip_package_check: the stage returns at once.
CheckSkipped(skip) == skip

HandleCheck ==
    /\ pc = "check"
    /\ IF CheckSkipped(cfg.skip_package_check)
       THEN EndStage("check", TRUE, <<Ev("start", "check")>>)
       ELSE \E hook \in HookOutcomes :
              EndStage("check", ~ShellExecRaises(ScriptExit(hook, FALSE, 0)),
                       <<Ev("start", "check")>> \o HookEvents("handle_check", hook))
    /\ UNCHANGED <<cfg, pre, ws, nsources, nsums, idx, made, mismatch, cleanups,
                   archive, result, cacheVars, syncVars, ctorVars, mfVars>>

\* The reserved files the post script writes into package/, in its order.
ReservedFiles == <<".file_info", ".hash", ".package_info">>

\* package/ after the hook: a hook that ran wrote (some of) the file tree.
PackageAfterHook(dir, hook) ==
    IF hook = "absent" THEN dir ELSE dir \cup {"payload"}

\* The fileinfo tool writes the manifest unless it exits with an error: its
\* main() exits with status 1 on any exception, and the post script goes on
\* to its next command whatever the status.
ManifestWritten(fileinfoExit) == fileinfoExit = 0

\* The reserved files the post script writes: fingerprint and metadata, and
\* the manifest if the fileinfo tool wrote it.
WrittenFiles(fileinfoExit) ==
    SelectSeq(ReservedFiles,
              LAMBDA f : f # ".file_info" \/ ManifestWritten(fileinfoExit))

\* package/ after the post script wrote manifest, fingerprint and metadata.
PackageAfterPost(dir, fileinfoExit) ==
    dir \cup { WrittenFiles(fileinfoExit)[i] :
                 i \in 1..Len(WrittenFiles(fileinfoExit)) }

\* The events of the post script: the writes, then tar.
PostEvents(fileinfoExit) ==
    [i \in 1..Len(WrittenFiles(fileinfoExit)) |->
        Ev("write", WrittenFiles(fileinfoExit)[i])]
        \o <<Ev("tar", "archive")>>

HandlePackage ==
    /\ pc = "package"
    /\ \E hook \in HookOutcomes, fileinfoExit \in {0, 1}, tarExit \in {0, 1} :
         LET hooked == PackageAfterHook(ws.package, hook)
             posted == PackageAfterPost(hooked, fileinfoExit)
             runs == PostScriptRuns(hook)
         IN  /\ EndStage("package", ~ShellExecRaises(ScriptExit(hook, TRUE, tarExit)),
                         <<Ev("start", "package")>> \o HookEvents("handle_package", hook)
                            \o (IF runs THEN PostEvents(fileinfoExit) ELSE <<>>))
             \* a hook that ended the shell never reaches the post script:
             \* one outcome
             /\ (~runs => (fileinfoExit = 1 /\ tarExit = 1))
             /\ ws' = [ws EXCEPT !.package = IF runs THEN posted ELSE hooked]
             /\ archive' = IF runs /\ tarExit = 0 THEN posted ELSE archive
    /\ UNCHANGED <<cfg, pre, nsources, nsums, idx, made, mismatch, cleanups,
                   result, cacheVars, syncVars, ctorVars, mfVars>>

(***************************************************************************)
(* _delete_workspace_directories, the finally block of create_package      *)
(***************************************************************************)
\* DeleteWorkspaceEffect without the keep toggle.
DeleteWorkspaceIgnoresKeep(exists, keep) ==
    IF ~exists THEN "nothing" ELSE "rmtree"

DeleteWorkspaceEffect(exists, keep) ==
    IF ~exists THEN "nothing"
    ELSE IF keep THEN "keep"
    ELSE "rmtree"

DeleteWorkspaceDirectories ==
    /\ pc = "cleanup"
    /\ log' = Append(log, Ev("start", "cleanup"))
    /\ cleanups' = cleanups + 1
    /\ ws' = IF DeleteWorkspaceEffect(ws.exists, cfg.keep_build_directory) = "rmtree"
             THEN AbsentRoot ELSE ws
    \* the exception of a failed stage is re-raised after the finally block
    /\ result' = IF failed = "none" THEN "returned" ELSE "raised"
    /\ pc' = "done"
    /\ UNCHANGED <<cfg, pre, nsources, nsums, idx, made, mismatch, failed,
                   archive, cacheVars, syncVars, ctorVars, mfVars>>

\* The repository cache plays no part in a build.
CacheIdle ==
    /\ cacheRoot = FALSE
    /\ repositories = <<>>
    /\ package_streams = <<>>
    /\ tree = {}
    /\ findArg = <<>>
    /\ searched = {}
    /\ findResult = [kind |-> "not_called"]

\* A RecipeContext exists: its description passed the length check of
\* RecipeDescription, and create_package is about to run.
Init ==
    /\ pc = "workspace"
    /\ ManifestIdle
    /\ cfg \in Configs
    /\ pre \in PreWorkspaces
    /\ ws = pre
    /\ nsources \in 0..MaxSources
    /\ nsums = nsources
    /\ idx = 0
    /\ log = <<>>
    /\ made = {}
    /\ mismatch = FALSE
    /\ failed = "none"
    /\ cleanups = 0
    /\ archive = "none"
    /\ result = "none"
    /\ CacheIdle
    /\ SyncIdle
    /\ CtorIdle

Next ==
    \/ CreateWorkspaceDirectories
    \/ HandleSourcesBegin
    \/ DownloadSource
    \/ CallHandleSources
    \/ HandleBuild
    \/ HandleCheck
    \/ HandlePackage
    \/ DeleteWorkspaceDirectories

Spec == Init /\ [][Next]_vars

(***************************************************************************)
(* Strings, as the code slices and splits them.                            *)
(***************************************************************************)
\* str.split(sep): the pieces between the separators, empty ones included.
RECURSIVE Split(_, _)
Split(s, sep) ==
    IF \E i \in 1..Len(s) : s[i] = sep
    THEN LET i == CHOOSE k \in 1..Len(s) :
                     s[k] = sep /\ \A j \in 1..(k - 1) : s[j] # sep
         IN  <<SubSeq(s, 1, i - 1)>> \o Split(SubSeq(s, i + 1, Len(s)), sep)
    ELSE <<s>>

\* str.endswith
EndsWith(s, suffix) ==
    /\ Len(s) >= Len(suffix)
    /\ SubSeq(s, Len(s) - Len(suffix) + 1, Len(s)) = suffix

\* s[n:]
SliceFrom(s, n) == SubSeq(s, n + 1, Len(s))

\* s[:-k]; with k = 0 this is s[:0], the empty string
DropLast(s, k) == IF k = 0 THEN <<>> ELSE SubSeq(s, 1, Len(s) - k)

\* os.path.join of two relative pieces
Join(a, b) == a \o <<"/">> \o b

\* The elements of a sequence of sequences, concatenated with "/" between.
RECURSIVE JoinAll(_)
JoinAll(parts) ==
    IF Len(parts) = 0 THEN <<>>
    ELSE IF Len(parts) = 1 THEN parts[1]
    ELSE Join(parts[1], JoinAll(Tail(parts)))

\* pathlib.Path(text): empty segments (a doubled or trailing "/") are dropped.
PathOf(text) ==
    LET segs == SelectSeq(Split(text, "/"), LAMBDA p : p # <<>>)
    IN  IF Len(text) > 0 /\ text[1] = "/" THEN <<"/">> \o JoinAll(segs)
        ELSE JoinAll(segs)

\* Some enumeration of a finite set.
RECURSIVE SetToSeq(_)
SetToSeq(S) ==
    IF S = {} THEN <<>>
    ELSE LET x == CHOOSE y \in S : TRUE IN <<x>> \o SetToSeq(S \ {x})

(***************************************************************************)
(* RecipeVersion: parsing, order and the closest-version selection.        *)
(***************************************************************************)
\* Python's None, where a requested version string is expected ...
None == <<"None">>
\* ... and where a RecipeVersion is: no parsed version has no segment.
NoVersion == <<>>

DigitValue(c) ==
    CASE c = "0" -> 0 [] c = "1" -> 1 [] c = "2" -> 2 [] c = "3" -> 3
      [] c = "4" -> 4 [] c = "5" -> 5 [] c = "6" -> 6 [] c = "7" -> 7
      [] c = "8" -> 8 [] c = "9" -> 9

RECURSIVE SegmentValue(_)
SegmentValue(seg) ==
    IF seg = <<>> THEN 0
    ELSE 10 * SegmentValue(SubSeq(seg, 1, Len(seg) - 1)) + DigitValue(seg[Len(seg)])

\* RecipeVersion.from_string: the dot-separated segments, as numbers.
ParseVersion(text) ==
    LET segs == Split(text, ".") IN [i \in 1..Len(segs) |-> SegmentValue(segs[i])]

\* a < b: the first differing segment decides; a proper prefix is smaller.
VersionLess(a, b) ==
    \E i \in 1..(Len(b)) :
        /\ \A j \in 1..(i - 1) : j <= Len(a) /\ a[j] = b[j]
        /\ (i > Len(a) \/ a[i] < b[i])

\* The leading segments of v are those of the request.
MatchesRequest(v, req) ==
    /\ Len(req) <= Len(v)
    /\ \A i \in 1..Len(req) : v[i] = req[i]

\* RecipeVersion.find_closest_version_or_none: the greatest version that is
\* compatible with the request; every version is, when nothing is requested.
FindClosestVersionOrNone(versions, requested) ==
    LET wanted == IF requested = None \/ requested = <<>> THEN <<>>
                  ELSE ParseVersion(requested)
        ok == {v \in versions : MatchesRequest(v, wanted)}
    IN  IF ok = {} THEN NoVersion
        ELSE CHOOSE v \in ok : \A w \in ok : ~VersionLess(v, w)

(***************************************************************************)
(* The repositories on disk and the configuration of the cache.            *)
(***************************************************************************)
RecipeExt == <<".", "r">>

RepoRefs == { [id |-> <<"r1">>, type |-> "GIT"], [id |-> <<"r2">>, type |-> "LOCAL"] }
Streams == { <<"core">>, <<"extra">> }

\* Directory entries of a package directory: a name, and whether it is a
\* regular file.
Entry(name, isFile) == [name |-> name, file |-> isFile]
\* Recipes f-1, f-1.2 and f-2 ...
RecipeEntries ==
    { Entry(<<"f", "-", "1", ".", "r">>, TRUE),
      Entry(<<"f", "-", "1", ".", "2", ".", "r">>, TRUE),
      Entry(<<"f", "-", "2", ".", "r">>, TRUE) }
\* ... and entries that are no recipe of f: no version, another suffix,
\* another package's name, a directory.
OddEntries ==
    { Entry(<<"f", "-", ".", "r">>, TRUE),
      Entry(<<"f", "-", "1", ".", "x">>, TRUE),
      Entry(<<"g", "-", "3", ".", "r">>, TRUE),
      Entry(<<"f", "-", "9", ".", "r">>, FALSE) }

\* Every entry lies in a directory <repo>/<stream>/f; the odd ones in that
\* of the first repository's stream core.
PkgDir == <<"f">>
TreeEntries ==
    { <<r.id, s, PkgDir, e>> : r \in RepoRefs, s \in Streams, e \in RecipeEntries }
        \cup { <<<<"r1">>, <<"core">>, PkgDir, e>> : e \in OddEntries }

RECURSIVE SubsetsUpTo(_, _)
SubsetsUpTo(S, n) ==
    IF n = 0 THEN {{}}
    ELSE LET smaller == SubsetsUpTo(S, n - 1)
         IN  smaller \cup { T \cup {x} : T \in smaller, x \in S }

RepoConfigs ==
    { <<>> } \cup { <<r>> : r \in RepoRefs }
             \cup { c \in { <<r, q>> : r \in RepoRefs, q \in RepoRefs } : c[1] # c[2] }
StreamConfigs ==
    { <<s>> : s \in Streams }
        \cup { c \in { <<s, t>> : s \in Streams, t \in Streams } : c[1] # c[2] }

\* The atoms given to find_recipe.
Atoms ==
    { <<>>, <<"f">>, <<"f", "/", "1">>, <<"f", "/", "9">>, <<"f", "/">>,
      <<"f", "/", "1", "/", "2">>, <<"g">> }

(***************************************************************************)
(* RepositoryCache.find_recipe and _find_recipe_by_name                    *)
(***************************************************************************)
Raised(error) == [kind |-> "raised", error |-> error, path |-> <<>>]
Found(path) == [kind |-> "path", error |-> "", path |-> path]
NotFound == [kind |-> "None", error |-> "", path |-> <<>>]

\* repo_ref.get_cache_path
RepoPath(ref) == ref.id

\* The entries of the directory <repo>/<stream>/<name>.
DirEntries(ref, stream, name) ==
    { t[4] : t \in { u \in tree : u[1] = RepoPath(ref) /\ u[2] = stream /\ u[3] = name } }

\* The version text cut out of a file name.
VersionText(filename, name) ==
    DropLast(SliceFrom(filename, Len(name) + 1), Len(RecipeExt))

\* The entries of one directory that the loop appends as candidates.
IsCandidate(entry, name) ==
    /\ entry.file
    /\ EndsWith(entry.name, RecipeExt)
    /\ VersionText(entry.name, name) # <<>>

DirCandidates(ref, stream, name) ==
    LET es == SetToSeq({ e \in DirEntries(ref, stream, name) : IsCandidate(e, name) })
    IN  [i \in 1..Len(es) |->
            [version |-> ParseVersion(VersionText(es[i].name, name)),
             path |-> JoinAll(<<RepoPath(ref), stream, name, es[i].name>>)]]

\* The candidates of the streams from the k-th on, in one repository.
RECURSIVE StreamCandidates(_, _, _)
StreamCandidates(ref, name, k) ==
    IF k > Len(package_streams) THEN <<>>
    ELSE DirCandidates(ref, package_streams[k], name)
            \o StreamCandidates(ref, name, k + 1)

\* Candidates that stops at the first repository that has any.
RECURSIVE CandidatesFirstRepo(_, _)
CandidatesFirstRepo(name, k) ==
    IF k > Len(repositories) THEN <<>>
    ELSE LET here == StreamCandidates(repositories[k], name, 1)
         IN  IF Len(here) > 0 THEN here ELSE CandidatesFirstRepo(name, k + 1)

\* The candidate list: every repository, and in it every stream, in
\* configured order.
RECURSIVE Candidates(_, _)
Candidates(name, k) ==
    IF k > Len(repositories) THEN <<>>
    ELSE StreamCandidates(repositories[k], name, 1) \o Candidates(name, k + 1)

\* The directories the loops look into.
SearchedDirs ==
    { <<repositories[i].id, package_streams[j]>> :
        i \in 1..Len(repositories), j \in 1..Len(package_streams) }

\* MalformedAtom that lets a third part through.
MalformedAtomLoose(parts) == Len(parts) > 3

\* More than one "/" in the atom.
MalformedAtom(parts) == Len(parts) > 2

\* NoMatchResult as an error.
NoMatchRaises == Raised("no_match")

\* The result for an empty candidate list, and for a selection without match.
EmptyPoolResult == NotFound
NoMatchResult == NotFound

\* The first candidate of the list with the selected version.
FirstWithVersion(cands, version) ==
    IF \E i \in 1..Len(cands) : cands[i].version = version
    THEN Found(cands[CHOOSE i \in 1..Len(cands) :
                        /\ cands[i].version = version
                        /\ \A j \in 1..(i - 1) : cands[j].version # version].path)
    ELSE NotFound

\* _find_recipe_by_name: the result and the directories looked into.
FindRecipeByName(atom) ==
    LET parts == Split(atom, "/")
        name == parts[1]
        requested == IF Len(parts) = 2 THEN parts[2] ELSE None
        cands == Candidates(name, 1)
        version == FindClosestVersionOrNone(
                       { cands[i].version : i \in 1..Len(cands) }, requested)
    IN  IF MalformedAtom(parts)
        THEN [res |-> Raised("invalid_format"), dirs |-> {}]
        ELSE IF Len(repositories) = 0
        THEN [res |-> Raised("no_repositories"), dirs |-> {}]
        ELSE IF Len(cands) = 0
        THEN [res |-> EmptyPoolResult, dirs |-> SearchedDirs]
        ELSE IF version = NoVersion
        THEN [res |-> NoMatchResult, dirs |-> SearchedDirs]
        ELSE [res |-> FirstWithVersion(cands, version), dirs |-> SearchedDirs]

\* CacheRootMissing with the check dropped.
CacheRootNotChecked(root) == FALSE

\* IsDirectPath that takes only an absolute path as one.
IsDirectPathIfAbsolute(atom, exists) == exists /\ atom[1] = "/"

\* The cache root must exist.
CacheRootMissing(root) == ~root

\* The atom is taken as a path when it exists as one.
IsDirectPath(atom, exists) == exists

\* find_recipe: the result and the directories looked into.
FindRecipeOutcome(atom, exists) ==
    IF CacheRootMissing(cacheRoot)
    THEN [res |-> Raised("cache_missing"), dirs |-> {}]
    ELSE IF atom = <<>>
    THEN [res |-> NotFound, dirs |-> {}]
    ELSE IF IsDirectPath(atom, exists)
    THEN [res |-> Found(PathOf(atom)), dirs |-> {}]
    ELSE FindRecipeByName(atom)

FindRecipe ==
    /\ findResult.kind = "not_called"
    /\ \E atom \in Atoms, exists \in BOOLEAN :
         \* os.path.exists("") is False
         /\ (atom = <<>> => ~exists)
         /\ LET out == FindRecipeOutcome(atom, exists)
            IN  /\ findArg' = [atom |-> atom, exists |-> exists]
                /\ findResult' = out.res
                /\ searched' = out.dirs
    /\ UNCHANGED <<cacheRoot, repositories, package_streams, tree, buildVars,
                   syncVars, ctorVars, mfVars>>

\* No build runs during a lookup.
BuildIdle ==
    /\ pc = "idle"
    /\ cfg = [keep_build_directory |-> FALSE, package_delete_workspace |-> FALSE,
              skip_package_check |-> FALSE]
    /\ pre = AbsentRoot
    /\ ws = AbsentRoot
    /\ nsources = 0
    /\ nsums = 0
    /\ idx = 0
    /\ log = <<>>
    /\ made = {}
    /\ mismatch = FALSE
    /\ failed = "none"
    /\ cleanups = 0
    /\ archive = "none"
    /\ result = "none"

\* A configuration and the repositories on disk; a missing cache root holds
\* no repository.
CacheInit ==
    /\ BuildIdle
    /\ ManifestIdle
    /\ SyncIdle
    /\ CtorIdle
    /\ cacheRoot \in BOOLEAN
    /\ repositories \in RepoConfigs
    /\ package_streams \in StreamConfigs
    /\ tree \in (IF cacheRoot THEN SubsetsUpTo(TreeEntries, MaxFiles) ELSE {{}})
    /\ findArg = <<>>
    /\ searched = {}
    /\ findResult = [kind |-> "not_called"]

CacheNext == FindRecipe

CacheSpec == CacheInit /\ [][CacheNext]_vars

(***************************************************************************)
(* RepositoryCache.update_cache and reset_cache                            *)
(***************************************************************************)
\* The refs of the configurations of a cache operation: two GIT refs and a
\* LOCAL one.
SyncRefs == RepoRefs \cup { [id |-> <<"r3">>, type |-> "GIT"] }

\* Repository lists: the refs of a subset of SyncRefs, in any order.
RECURSIVE Orderings(_)
Orderings(S) ==
    IF S = {} THEN { <<>> }
    ELSE UNION { { <<r>> \o rest : rest \in Orderings(S \ {r}) } : r \in S }
SyncConfigs == UNION { Orderings(S) : S \in SUBSET SyncRefs }

\* What the path of a ref holds: nothing, a checkout without changes, or a
\* checkout with uncommitted changes.
CloneStates == { "absent", "clean", "dirty" }

\* Exit statuses of a git command.
ExitCodes == { 0, 1 }

\* A command or removal run on the path of a ref, with its exit status.
Ran(command, ref, exit) == <<command, ref.id, exit>>

\* IsGit that takes every ref for a GIT one.
IsGitAlways(ref) == TRUE

\* repo_ref.get_type() == RepositoryType.GIT
IsGit(ref) == ref.type = "GIT"

\* "git diff --quiet" that never reports a change.
DiffExitQuiet(state) == 0

\* The exit status of "git -C <path> diff --quiet": non-zero when the
\* checkout has changes.
DiffExit(state) == IF state = "dirty" THEN 1 ELSE 0

\* UpdateGitCache that logs a failed command and goes on without raising.
UpdateGitCacheSwallows(ref, state, cloneExit, pullExit) ==
    IF state = "absent"
    THEN [ran |-> <<Ran("clone", ref, cloneExit)>>,
          state |-> IF cloneExit = 0 THEN "clean" ELSE "absent",
          raised |-> FALSE]
    ELSE [ran |-> <<Ran("diff", ref, DiffExit(state)),
                    Ran("pull", ref, pullExit)>>,
          state |-> state,
          raised |-> FALSE]

\* _update_git_cache on a path in the given state: the commands it runs, the
\* state it leaves and whether it raises.
UpdateGitCache(ref, state, cloneExit, pullExit) ==
    IF state = "absent"
    THEN [ran |-> <<Ran("clone", ref, cloneExit)>>,
          state |-> IF cloneExit = 0 THEN "clean" ELSE "absent",
          raised |-> cloneExit # 0]
    ELSE IF DiffExit(state) # 0
    THEN [ran |-> <<Ran("diff", ref, DiffExit(state))>>,
          state |-> state,
          raised |-> TRUE]
    ELSE [ran |-> <<Ran("diff", ref, 0), Ran("pull", ref, pullExit)>>,
          state |-> state,
          raised |-> pullExit # 0]

\* reset_cache that leaves a changed checkout in place.
ResetRemovesUnchanged(state) == state = "clean"

\* exists(repository_path) in reset_cache: the path is removed.
ResetRemoves(state) == state # "absent"

\* update_cache starts: the cache root is made if it is missing.
UpdateCache ==
    /\ syncOp = "none"
    /\ syncOp' = "update"
    /\ gitlog' = IF cacheRoot THEN gitlog ELSE Append(gitlog, <<"makedirs", <<"root">>, 0>>)
    /\ cacheRoot' = TRUE
    /\ UNCHANGED <<syncIdx, clones, clones0, syncResult>>
    /\ UNCHANGED <<repositories, package_streams, tree, findArg, searched,
                   findResult, buildVars, ctorVars, mfVars>>

\* reset_cache starts.
ResetCache ==
    /\ syncOp = "none"
    /\ syncOp' = "reset"
    /\ UNCHANGED <<syncIdx, clones, clones0, gitlog, syncResult>>
    /\ UNCHANGED <<cacheVars, buildVars, ctorVars, mfVars>>

\* One round of the loop of update_cache.
UpdateCacheStep ==
    /\ syncOp = "update"
    /\ syncResult = "none"
    /\ syncIdx < Len(repositories)
    /\ LET ref == repositories[syncIdx + 1] IN
         IF IsGit(ref)
         THEN \E cloneExit \in ExitCodes, pullExit \in ExitCodes :
                LET out == UpdateGitCache(ref, clones[ref.id], cloneExit, pullExit)
                IN  /\ gitlog' = gitlog \o out.ran
                    /\ clones' = [clones EXCEPT ![ref.id] = out.state]
                    /\ syncResult' = IF out.raised THEN "raised" ELSE "none"
         ELSE UNCHANGED <<gitlog, clones, syncResult>>
    /\ syncIdx' = syncIdx + 1
    /\ UNCHANGED <<syncOp, clones0>>
    /\ UNCHANGED <<cacheVars, buildVars, ctorVars, mfVars>>

\* One round of the loop of reset_cache.
ResetCacheStep ==
    /\ syncOp = "reset"
    /\ syncResult = "none"
    /\ syncIdx < Len(repositories)
    /\ LET ref == repositories[syncIdx + 1] IN
         IF IsGit(ref)
         THEN \E cloneExit \in ExitCodes, pullExit \in ExitCodes :
                LET removes == ResetRemoves(clones[ref.id])
                    state == IF removes THEN "absent" ELSE clones[ref.id]
                    out == UpdateGitCache(ref, state, cloneExit, pullExit)
                IN  /\ gitlog' = gitlog
                            \o (IF removes THEN <<Ran("rmtree", ref, 0)>> ELSE <<>>)
                            \o out.ran
                    /\ clones' = [clones EXCEPT ![ref.id] = out.state]
                    /\ syncResult' = IF out.raised THEN "raised" ELSE "none"
                    /\ cacheRoot' = (cacheRoot \/ out.state # "absent")
         ELSE UNCHANGED <<gitlog, clones, syncResult, cacheRoot>>
    /\ syncIdx' = syncIdx + 1
    /\ UNCHANGED <<syncOp, clones0>>
    /\ UNCHANGED <<repositories, package_streams, tree, findArg, searched,
                   findResult, buildVars, ctorVars, mfVars>>

\* The loop is over: the operation returns.
SyncReturn ==
    /\ syncOp # "none"
    /\ syncResult = "none"
    /\ syncIdx = Len(repositories)
    /\ syncResult' = "returned"
    /\ UNCHANGED <<syncOp, syncIdx, clones, clones0, gitlog>>
    /\ UNCHANGED <<cacheVars, buildVars, ctorVars, mfVars>>

\* A configuration and what the paths of its refs hold; under a missing
\* cache root no GIT ref has a local copy.
SyncInit ==
    /\ BuildIdle
    /\ ManifestIdle
    /\ CtorIdle
    /\ cacheRoot \in BOOLEAN
    /\ repositories \in SyncConfigs
    /\ package_streams = <<>>
    /\ tree = {}
    /\ findArg = <<>>
    /\ searched = {}
    /\ findResult = [kind |-> "not_called"]
    /\ syncOp = "none"
    /\ syncIdx = 0
    /\ clones \in { c \in [{ r.id : r \in SyncRefs } -> CloneStates] :
                      cacheRoot \/ \A r \in SyncRefs : IsGit(r) => c[r.id] = "absent" }
    /\ clones0 = clones
    /\ gitlog = <<>>
    /\ syncResult = "none"

SyncNext ==
    \/ UpdateCache
    \/ ResetCache
    \/ UpdateCacheStep
    \/ ResetCacheStep
    \/ SyncReturn

SyncSpec == SyncInit /\ [][SyncNext]_vars

(***************************************************************************)
(* RecipeContext.__init__, _read_package_variable and RecipeDescription    *)
(***************************************************************************)
\* The fields of a recipe, in the order __init__ reads them.
Fields ==
    <<"name", "version", "release", "url", "licenses", "dependencies",
      "build_dependencies", "sources", "sha256sums", "package_options">>

\* The fields whose number of words the model keeps.
CountedFields == {"sources", "sha256sums"}

\* The numbers of words a recipe can give a field.
WordCounts(field) == IF field \in CountedFields THEN 0..MaxSources ELSE {1}

\* The value of the variable of a recipe, and the text its function prints.
VariableValue(n) == [from |-> "variable", words |-> n]
FunctionOutput(n) == [from |-> "function", words |-> n]
NoOutput == [from |-> "none", words |-> 0]

\* Ambiguous that never holds.
AmbiguousNever(hasVar, hasFn) == FALSE

\* declare -f <field> && declare -p <field>
Ambiguous(hasVar, hasFn) == hasVar /\ hasFn

\* The script of _read_package_variable: its exit status, what it prints on
\* standard output and whether it calls the function of the recipe.
ReadScript(hasVar, hasFn, fnExit, varValue, fnOutput) ==
    IF Ambiguous(hasVar, hasFn)
    THEN [exit |-> 1, stdout |-> NoOutput, invokes |-> FALSE]
    ELSE IF hasFn
    THEN [exit |-> fnExit, stdout |-> fnOutput, invokes |-> TRUE]
    ELSE IF hasVar
    THEN [exit |-> 0, stdout |-> varValue, invokes |-> FALSE]
    ELSE [exit |-> 1, stdout |-> NoOutput, invokes |-> FALSE]

\* ShellCommand.exec_get_value raises when the command exits non-zero, and
\* returns its standard output otherwise.
ExecGetValueRaises(exit) == exit # 0

\* AfterRead that goes on to the next field after a failed read.
AfterReadContinues(k, ok) == IF k = Len(Fields) THEN "assemble" ELSE "read"

\* Where __init__ is after the read of the k-th field: a failed read ends it.
AfterRead(k, ok) ==
    IF ~ok THEN "done"
    ELSE IF k = Len(Fields) THEN "assemble" ELSE "read"

\* LengthsDiffer that accepts any two lengths.
LengthsNeverDiffer(nsrc, nsum) == FALSE

\* RecipeDescription.__init__: len(sources) != len(sha256sums)
LengthsDiffer(nsrc, nsum) == nsrc # nsum

\* The value read for a field, if it was read.
ValueOf(field) ==
    LET k == CHOOSE i \in 1..Len(Fields) : Fields[i] = field IN values[k]

\* __init__ starts: a recipe path that does not exist raises.
CheckRecipePath ==
    /\ ctorPc = "start"
    /\ \E pathExists \in BOOLEAN :
         /\ ctorPc' = IF pathExists THEN "read" ELSE "done"
         /\ ctorResult' = IF pathExists THEN ctorResult ELSE "raised"
    /\ UNCHANGED <<reads, invoked, values, description>>
    /\ UNCHANGED <<buildVars, cacheVars, syncVars, mfVars>>

\* One call of _read_package_variable, for the next field.
ReadPackageVariable ==
    /\ ctorPc = "read"
    /\ LET k == Len(reads) + 1
           field == Fields[k]
       IN  \E hasVar \in BOOLEAN, hasFn \in BOOLEAN, fnExit \in ExitCodes,
              n \in WordCounts(field), m \in WordCounts(field) :
             LET out == ReadScript(hasVar, hasFn, fnExit,
                                   VariableValue(n), FunctionOutput(m))
                 ok == ~ExecGetValueRaises(out.exit)
             IN  /\ reads' = Append(reads, [field |-> field, var |-> hasVar,
                                            fn |-> hasFn, exit |-> out.exit])
                 /\ invoked' = IF out.invokes THEN invoked \cup {field} ELSE invoked
                 /\ values' = IF ok THEN Append(values, out.stdout) ELSE values
                 /\ ctorPc' = AfterRead(k, ok)
                 /\ ctorResult' = IF ok THEN ctorResult ELSE "raised"
    /\ UNCHANGED description
    /\ UNCHANGED <<buildVars, cacheVars, syncVars, mfVars>>

\* Version(version) and RecipeDescription(...): either may raise, and then
\* self.description is not assigned.
AssembleDescription ==
    /\ ctorPc = "assemble"
    /\ \E versionRaises \in BOOLEAN :
         LET nsrc == ValueOf("sources").words
             nsum == ValueOf("sha256sums").words
             raises == versionRaises \/ LengthsDiffer(nsrc, nsum)
         IN  /\ description' =
                    IF raises THEN description
                    ELSE [assigned |-> TRUE, sources |-> nsrc,
                          sha256sums |-> nsum]
             /\ ctorResult' = IF raises THEN "raised" ELSE "constructed"
    /\ ctorPc' = "done"
    /\ UNCHANGED <<reads, invoked, values>>
    /\ UNCHANGED <<buildVars, cacheVars, syncVars, mfVars>>

\* create_package is called on the context: the pipeline is at its first
\* stage, with the sources and checksums of the description.
CreatePackage ==
    /\ ctorResult = "constructed"
    /\ pc = "idle"
    /\ pc' = "workspace"
    /\ nsources' = description.sources
    /\ nsums' = description.sha256sums
    /\ UNCHANGED <<cfg, pre, ws, idx, log, made, mismatch, failed, cleanups,
                   archive, result>>
    /\ UNCHANGED <<cacheVars, syncVars, ctorVars, mfVars>>

\* RecipeContext(configuration, path) is called.
ConstructInit ==
    /\ BuildIdle
    /\ ManifestIdle
    /\ CacheIdle
    /\ SyncIdle
    /\ ctorPc = "start"
    /\ reads = <<>>
    /\ invoked = {}
    /\ values = <<>>
    /\ description = NoDescription
    /\ ctorResult = "none"

ConstructNext ==
    \/ CheckRecipePath
    \/ ReadPackageVariable
    \/ AssembleDescription
    \/ CreatePackage

ConstructSpec == ConstructInit /\ [][ConstructNext]_vars

(***************************************************************************)
(* write_file_info                                                         *)
(***************************************************************************)
\* What an entry under the package root is; path.is_file() holds for "file".
MfEntry(path, kind, content) ==
    [path |-> path, kind |-> kind, content |-> content]

\* Entries a package root can hold: files of the same name at the root and
\* in a directory, reserved names at the root and in a directory, a stale
\* manifest, and an entry that is neither a file nor a directory.
MfEntries ==
    { MfEntry(<<"x">>, "file", "h1"),
      MfEntry(<<"sub">>, "dir", "none"),
      MfEntry(<<"sub", "x">>, "file", "h2"),
      MfEntry(<<"sub", "y">>, "file", "h1"),
      MfEntry(<<".hash">>, "file", "h1"),
      MfEntry(<<".package_info">>, "file", "h2"),
      MfEntry(<<".file_info">>, "file", "h1"),
      MfEntry(<<"sub", ".hash">>, "file", "h2"),
      MfEntry(<<"link">>, "other", "none") }

\* The trees: an entry in a directory comes with the directory.
MfTrees ==
    { t \in SubsetsUpTo(MfEntries, MaxFiles + 2) :
        \A e \in t : Len(e.path) > 1 =>
            \E d \in t : d.kind = "dir" /\ d.path = SubSeq(e.path, 1, Len(e.path) - 1) }

\* What the path given to write_file_info can be.
MfRoots == { "dir", "file", "absent" }

\* _file_info_file_name and _file_ignore_list
FileInfoFileName == ".file_info"
FileIgnoreList == { FileInfoFileName, ".hash", ".package_info" }

\* file.name: the last component of the path.
BaseName(path) == path[Len(path)]

\* Ignored that ignores nothing.
IgnoredNever(entry) == FALSE

\* file.name in _file_ignore_list
Ignored(entry) == BaseName(entry.path) \in FileIgnoreList

\* The entries of the walk that get a line.
Listed(entry) == entry.kind = "file" /\ ~Ignored(entry)

\* The line written for a file: its hash (with permissions and size, which
\* the content stands for) and file.name.
ManifestLine(entry) == [hash |-> entry.content, name |-> BaseName(entry.path)]

\* The tree once open(path / ".file_info", "w") has run: the manifest is
\* there, empty, whatever was there under that name.
TreeWithManifest(entries) ==
    { e \in entries : e.path # <<FileInfoFileName>> }
        \cup { MfEntry(<<FileInfoFileName>>, "file", "manifest") }

\* write_file_info(path)
WriteFileInfo ==
    /\ mfPc = "start"
    /\ mfPc' = "done"
    /\ IF mfRoot # "dir"
       THEN /\ mfResult' = "raised"
            /\ UNCHANGED <<mfTree, manifest, mfWrote>>
       ELSE LET entries == TreeWithManifest(mfTree)
                walk == SetToSeq({ e \in entries : Listed(e) })
            IN  /\ mfTree' = entries
                /\ manifest' =
                      [written |-> TRUE,
                       lines |-> [i \in 1..Len(walk) |-> ManifestLine(walk[i])]]
                /\ mfWrote' = [i \in 1..Len(walk) |-> walk[i].path]
                /\ mfResult' = "returned"
    /\ UNCHANGED mfRoot
    /\ UNCHANGED <<buildVars, cacheVars, syncVars, ctorVars>>

\* A path and what is under it; only a directory holds entries.
ManifestInit ==
    /\ BuildIdle
    /\ CacheIdle
    /\ SyncIdle
    /\ CtorIdle
    /\ mfPc = "start"
    /\ mfRoot \in MfRoots
    /\ mfTree \in (IF mfRoot = "dir" THEN MfTrees ELSE {{}})
    /\ manifest = NoManifest
    /\ mfWrote = <<>>
    /\ mfResult = "none"

ManifestNext == WriteFileInfo

ManifestSpec == ManifestInit /\ [][ManifestNext]_vars

(***************************************************************************)
(* Properties of create_package (specification Spec).                      *)
(***************************************************************************)
\* The stages started so far, cleanup aside, in the order they started.
StageStarts == SelectSeq(log, LAMBDA e : e[1] = "start" /\ e[2] # "cleanup")

\* Events of a hook subprocess: the subprocess, and the hook function in it.
HookRan == \E i \in 1..Len(log) : log[i][1] \in {"subprocess", "hook"}

\* C1: the stages run in the fixed order workspace, sources, build, check,
\* package, cleanup: the stages started are a prefix of that order (so none
\* runs twice and none is re-entered), each one after the first starts only
\* after its predecessor ended normally and no stage has failed, and cleanup
\* starts at most once, as the last event.
C1_StagesInFixedOrder ==
    LET starts == StageStarts IN
    /\ Len(starts) <= Len(StageOrder)
    /\ \A i \in 1..Len(starts) : starts[i][2] = StageOrder[i]
    /\ \A i \in 1..Len(log) :
         log[i][1] = "start" =>
            \A k \in 2..Len(StageOrder) :
                log[i][2] = StageOrder[k] =>
                    /\ \E j \in 1..(i - 1) : log[j] = Ev("ok", StageOrder[k - 1])
                    /\ \A j \in 1..(i - 1) : log[j][1] # "fail"
    /\ \A i \in 1..Len(log) : log[i] = Ev("start", "cleanup") => i = Len(log)

\* C1 witness: a run went through all five stages and the cleanup.
C1_Witness ==
    /\ pc = "done"
    /\ result = "returned"
    /\ Len(StageStarts) = Len(StageOrder)
    /\ log[Len(log)] = Ev("start", "cleanup")

\* C2: once a stage has failed, nothing but the cleanup happens after it (no
\* later stage, no hook, no second start of the failed stage), the cleanup
\* runs exactly once, and create_package ends by raising.
C2_FailureAbortsAndPropagates ==
    \A i \in 1..Len(log) :
        log[i][1] = "fail" =>
            /\ \A j \in (i + 1)..Len(log) : log[j] = Ev("start", "cleanup")
            /\ Cardinality({ j \in 1..Len(log) : log[j] = Ev("start", log[i][2]) }) = 1
            /\ failed = log[i][2]
            /\ pc \in {"cleanup", "done"}
            /\ (pc = "done" => cleanups = 1 /\ result = "raised")

\* C2 witness: the build stage failed and the run is over.
C2_Witness ==
    /\ pc = "done"
    /\ failed = "build"
    /\ \E i \in 1..Len(log) : log[i] = Ev("fail", "build")

\* C3: after create_package has ended, the workspace root is gone when the
\* keep toggle is unset; when it is set and a stage after the workspace
\* creation failed, the root exists and holds source/.
C3_WorkspaceAfterExit ==
    pc = "done" =>
        /\ (~cfg.keep_build_directory => ~ws.exists)
        /\ (cfg.keep_build_directory
              /\ failed \in {"sources", "build", "check", "package"}
                => ws.exists /\ "source" \in ws.dirs)

\* C3 witness: handle_build failed with the keep toggle set.
C3_Witness ==
    /\ pc = "done"
    /\ cfg.keep_build_directory
    /\ failed = "build"
    /\ \E i \in 1..Len(log) : log[i] = Ev("hook", "handle_build")

\* C4: when the file obtained for a source differs from its checksum, the
\* sources stage fails, no hook subprocess runs in that build, and
\* create_package ends by raising.
C4_ChecksumMismatchAborts ==
    mismatch =>
        /\ ~HookRan
        /\ failed = "sources"
        /\ pc \in {"cleanup", "done"}
        /\ (pc = "done" => result = "raised")

\* C4 witness: the second source of a recipe mismatched, after the first
\* was accepted.
C4_Witness ==
    /\ pc = "done"
    /\ mismatch
    /\ idx = 1
    /\ nsources = 2

\* C5: a root that exists without deletion-of-existing makes the workspace
\* stage fail with no directory created and no hook run; with
\* deletion-of-existing the root is removed before it is created and the
\* stage ends with exactly the three empty directories in a fresh root.
C5_WorkspaceCreation ==
    /\ (pre.exists /\ ~cfg.package_delete_workspace /\ pc # "workspace") =>
          /\ failed = "workspace"
          /\ made = {}
          /\ ~HookRan
          /\ Len(StageStarts) = 1
          /\ (pc = "done" => result = "raised")
    /\ (pre.exists /\ cfg.package_delete_workspace /\ pc = "sources") =>
          /\ ws = FreshRoot
          /\ \E i \in 1..(Len(log) - 1) :
                /\ log[i] = Ev("rmtree", "workspace")
                /\ log[i + 1] = Ev("makedirs", "workspace")

\* C5 witness: a root holding a foreign file was replaced by a fresh one.
C5_Witness ==
    /\ pc = "sources"
    /\ pre.exists
    /\ pre.stale
    /\ cfg.package_delete_workspace
    /\ ws = FreshRoot

(***************************************************************************)
(* Properties of find_recipe (specification CacheSpec).                    *)
(***************************************************************************)
Called == findResult.kind # "not_called"

SlashCount(text) == Cardinality({ i \in 1..Len(text) : text[i] = "/" })

\* The call is a lookup by name: the cache root exists, the atom is not
\* empty, is no existing path and has at most one "/".
ByName ==
    /\ Called
    /\ cacheRoot
    /\ findArg.atom # <<>>
    /\ ~findArg.exists
    /\ SlashCount(findArg.atom) <= 1

\* The name and the requested version text of the atom of a lookup by name.
AtomName ==
    LET a == findArg.atom
    IN  IF SlashCount(a) = 0 THEN a
        ELSE SubSeq(a, 1, (CHOOSE i \in 1..Len(a) : a[i] = "/") - 1)
AtomVersion ==
    LET a == findArg.atom
    IN  IF SlashCount(a) = 0 THEN <<>>
        ELSE SubSeq(a, (CHOOSE i \in 1..Len(a) : a[i] = "/") + 1, Len(a))

\* The pool: the candidates of every configured repository and stream.
Pool ==
    { [version |-> ParseVersion(VersionText(t[4].name, AtomName)),
       repo |-> t[1],
       path |-> JoinAll(<<t[1], t[2], t[3], t[4].name>>)] :
        t \in { u \in tree :
                  /\ u[3] = AtomName
                  /\ IsCandidate(u[4], AtomName)
                  /\ \E i \in 1..Len(repositories) : repositories[i].id = u[1]
                  /\ \E j \in 1..Len(package_streams) : package_streams[j] = u[2] } }

\* The candidates of the pool that the requested version admits.
Qualifying ==
    { c \in Pool : AtomVersion = <<>>
                     \/ MatchesRequest(c.version, ParseVersion(AtomVersion)) }

\* The version that the selection picks from the versions of the pool.
PoolSelection ==
    FindClosestVersionOrNone({ c.version : c \in Pool },
                             IF SlashCount(findArg.atom) = 0 THEN None ELSE AtomVersion)

\* C6: a lookup by name selects over the pool of all configured repositories
\* and streams: it returns the path of a candidate of the pool whose version
\* is the one selected from the whole pool, which no qualifying candidate of
\* any repository or stream exceeds, and None when none qualifies.
C6_SelectsOverWholePool ==
    (ByName /\ Len(repositories) > 0) =>
        IF Qualifying = {}
        THEN findResult = NotFound
        ELSE /\ findResult.kind = "path"
             /\ \E c \in Qualifying :
                   /\ c.path = findResult.path
                   /\ c.version = PoolSelection
                   /\ \A d \in Qualifying : ~VersionLess(c.version, d.version)

\* C6 witness: the recipe returned lies in the second repository and an
\* earlier repository holds a qualifying lower version.
C6_Witness ==
    /\ ByName
    /\ Len(repositories) = 2
    /\ findResult.kind = "path"
    /\ \E c \in Qualifying, d \in Qualifying :
          /\ c.path = findResult.path
          /\ c.repo = repositories[2].id
          /\ d.repo = repositories[1].id
          /\ VersionLess(d.version, c.version)

\* C7 as stated: with the cache root present and at most one "/" in the
\* atom, a lookup by name whose pool is empty, or from whose pool the
\* selection picks nothing, returns None, whatever the repository list.
C7_NotFoundIsNone_AnyConfiguration ==
    (ByName /\ (Pool = {} \/ PoolSelection = NoVersion)) => findResult = NotFound

\* C7 amended: the same with at least one repository configured; with an
\* empty repository list the lookup by name raises.
C7_NotFoundIsNone ==
    ByName =>
        /\ (Len(repositories) > 0 /\ (Pool = {} \/ PoolSelection = NoVersion))
              => findResult = NotFound
        /\ Len(repositories) = 0 => findResult = Raised("no_repositories")

\* C7 witness: recipes of the package exist, none matches the request, and
\* the lookup returned None.
C7_Witness ==
    /\ ByName
    /\ Len(repositories) > 0
    /\ Pool # {}
    /\ PoolSelection = NoVersion
    /\ findResult = NotFound

\* C8: an atom with more than one "/" that is no existing path makes
\* find_recipe raise (the format error, when the cache root exists) without
\* looking into a repository.
C8_MalformedAtomRaises ==
    (Called /\ ~findArg.exists /\ SlashCount(findArg.atom) > 1) =>
        /\ findResult.kind = "raised"
        /\ searched = {}
        /\ (cacheRoot => findResult.error = "invalid_format")

\* C8 witness: such an atom was refused although repositories with recipes
\* are configured.
C8_Witness ==
    /\ Called
    /\ cacheRoot
    /\ ~findArg.exists
    /\ SlashCount(findArg.atom) > 1
    /\ Len(repositories) = 2
    /\ tree # {}
    /\ findResult = Raised("invalid_format")

\* C9: an atom that exists as a path is returned as that path (the same
\* segments; the same text unless it ends in "/"), and no repository is
\* looked into.
C9_ExistingPathReturned ==
    (Called /\ cacheRoot /\ findArg.exists) =>
        /\ findResult.kind = "path"
        /\ searched = {}
        /\ SelectSeq(Split(findResult.path, "/"), LAMBDA p : p # <<>>)
             = SelectSeq(Split(findArg.atom, "/"), LAMBDA p : p # <<>>)
        /\ (findArg.atom[Len(findArg.atom)] # "/" => findResult.path = findArg.atom)

\* C9 witness: the atom f/1 exists as a path while a configured repository
\* holds a recipe f-1, and the atom itself came back.
C9_Witness ==
    /\ Called
    /\ cacheRoot
    /\ findArg.exists
    /\ findArg.atom = <<"f", "/", "1">>
    /\ \E t \in tree :
          /\ t[4].name = <<"f", "-", "1", ".", "r">>
          /\ \E i \in 1..Len(repositories) : repositories[i].id = t[1]
          /\ \E j \in 1..Len(package_streams) : package_streams[j] = t[2]
    /\ findResult = Found(<<"f", "/", "1">>)

\* C10: without the cache root find_recipe raises for every atom, and it
\* raises that error only then: the root is still missing after the call.
C10_MissingCacheRootRaises ==
    Called =>
        /\ (~cacheRoot => findResult = Raised("cache_missing") /\ searched = {})
        /\ (findResult = Raised("cache_missing") => ~cacheRoot)

\* C10 witness: the call failed for an atom that exists as a path.
C10_Witness ==
    /\ Called
    /\ ~cacheRoot
    /\ findArg.exists
    /\ findResult = Raised("cache_missing")

\* The text begins with the prefix.
StartsWith(text, prefix) ==
    /\ Len(text) >= Len(prefix)
    /\ SubSeq(text, 1, Len(prefix)) = prefix

\* The entries of the configured directories <repo>/<stream>/<name> that are
\* regular files named <name>-<version><suffix> with a version that is not
\* empty.
NamedRecipePaths ==
    { JoinAll(<<t[1], t[2], t[3], t[4].name>>) :
        t \in { u \in tree :
                  /\ u[3] = AtomName
                  /\ u[4].file
                  /\ EndsWith(u[4].name, RecipeExt)
                  /\ StartsWith(u[4].name, AtomName \o <<"-">>)
                  /\ Len(u[4].name) > Len(AtomName) + 1 + Len(RecipeExt)
                  /\ \E i \in 1..Len(repositories) : repositories[i].id = u[1]
                  /\ \E j \in 1..Len(package_streams) : package_streams[j] = u[2] } }

\* C11: in a lookup by name, a directory entry is a candidate if and only if
\* it is a regular file whose name ends with the recipe suffix and begins
\* with "<name>-" and whose version text is not empty; an entry whose name
\* does not begin with "<name>-" is never a candidate, and no path of such
\* an entry is returned.
C11_CandidatesBeginWithName ==
    (ByName /\ Len(repositories) > 0) =>
        /\ LET cands == Candidates(AtomName, 1)
           IN  { cands[i].path : i \in 1..Len(cands) } = NamedRecipePaths
        /\ findResult.kind = "path" => findResult.path \in NamedRecipePaths

(***************************************************************************)
(* Properties of update_cache and reset_cache (specification SyncSpec).    *)
(***************************************************************************)
\* What was run on the path of a ref, in order: the commands, and the events.
EventsOf(id) == SelectSeq(gitlog, LAMBDA e : e[2] = id)
CommandsOf(id) == [i \in 1..Len(EventsOf(id)) |-> EventsOf(id)[i][1]]

\* The position of a ref in the configured list, 0 if it is not in it.
PositionOf(id) ==
    IF \E k \in 1..Len(repositories) : repositories[k].id = id
    THEN CHOOSE k \in 1..Len(repositories) : repositories[k].id = id
    ELSE 0

\* C12: update_cache does exactly one thing for each version-controlled ref
\* it gets to: a clone when the local copy is absent, the change check alone
\* and then an error when the copy has uncommitted changes, the change check
\* and a fast-forward-only pull when the copy is clean. A clone or pull that
\* exits non-zero raises, at that ref; no pull runs on a copy whose change
\* check failed, no ref past a failure is touched, and a copy with changes
\* still has them afterwards.
C12_UpdateClonesRefusesOrPulls ==
    syncOp = "update" =>
        /\ \A k \in 1..Len(repositories) :
             LET ref == repositories[k]
                 ev == EventsOf(ref.id)
             IN  IF k > syncIdx \/ ref.type # "GIT" THEN ev = <<>>
                 ELSE /\ clones0[ref.id] = "absent" => CommandsOf(ref.id) = <<"clone">>
                      /\ clones0[ref.id] = "dirty" =>
                            /\ CommandsOf(ref.id) = <<"diff">>
                            /\ ev[1][3] # 0
                            /\ syncResult = "raised"
                      /\ clones0[ref.id] = "clean" =>
                            /\ CommandsOf(ref.id) = <<"diff", "pull">>
                            /\ ev[1][3] = 0
                      /\ (\E i \in 1..Len(ev) : ev[i][3] # 0) =>
                            /\ syncResult = "raised"
                            /\ k = syncIdx
                            /\ ev[Len(ev)][3] # 0
        /\ syncResult = "raised" => gitlog[Len(gitlog)][3] # 0
        /\ \A r \in SyncRefs : clones0[r.id] = "dirty" => clones[r.id] = "dirty"
        /\ \A i \in 1..Len(gitlog) : gitlog[i][1] # "rmtree"

\* update_cache cloned one ref and then refused a second one whose copy has
\* uncommitted changes.
C12_Witness ==
    /\ syncOp = "update"
    /\ syncResult = "raised"
    /\ \E i \in 1..Len(gitlog), j \in 1..Len(gitlog) :
         /\ i < j
         /\ gitlog[i][1] = "clone" /\ gitlog[i][3] = 0
         /\ gitlog[j][1] = "diff" /\ gitlog[j][3] # 0
         /\ clones[gitlog[j][2]] = "dirty"

\* C13: neither update_cache nor reset_cache runs a clone, a change check, a
\* pull or a removal on the path of a LOCAL ref, in any configuration and at
\* any point of the operation, and what the path of a LOCAL ref holds stays
\* as it was.
C13_LocalRefsUntouched ==
    \A r \in SyncRefs :
        r.type = "LOCAL" =>
            /\ EventsOf(r.id) = <<>>
            /\ clones[r.id] = clones0[r.id]

\* An operation went past a LOCAL ref with a checkout at its path, worked
\* on a GIT ref configured after it and returned.
C13_Witness ==
    /\ syncOp \in {"update", "reset"}
    /\ syncResult = "returned"
    /\ \E k \in 1..Len(repositories) :
         /\ repositories[k].type = "LOCAL"
         /\ clones0[repositories[k].id] # "absent"
         /\ \E j \in (k + 1)..Len(repositories) : EventsOf(repositories[j].id) # <<>>

\* C14: reset_cache goes through the GIT refs in configured order; for each
\* it removes the local copy if there is one and then clones, the removal
\* right before the clone of the same ref, and it runs no change check and
\* no pull. When it returns, every configured GIT ref has a freshly cloned
\* copy, also those whose copy had uncommitted changes.
C14_ResetRemovesThenClones ==
    syncOp = "reset" =>
        /\ \A k \in 1..Len(repositories) :
             LET ref == repositories[k]
             IN  IF k > syncIdx \/ ref.type # "GIT" THEN EventsOf(ref.id) = <<>>
                 ELSE CommandsOf(ref.id) =
                        IF clones0[ref.id] = "absent" THEN <<"clone">>
                        ELSE <<"rmtree", "clone">>
        /\ \A i \in 1..Len(gitlog) :
             /\ gitlog[i][1] \in {"rmtree", "clone"}
             /\ \A j \in (i + 1)..Len(gitlog) :
                  PositionOf(gitlog[i][2]) <= PositionOf(gitlog[j][2])
             /\ gitlog[i][1] = "rmtree" =>
                  /\ i < Len(gitlog)
                  /\ gitlog[i + 1] = <<"clone", gitlog[i][2], gitlog[i + 1][3]>>
        /\ syncResult = "returned" =>
             \A k \in 1..Len(repositories) :
                 repositories[k].type = "GIT" =>
                    /\ clones[repositories[k].id] = "clean"
                    /\ \E i \in 1..Len(gitlog) :
                         gitlog[i] = <<"clone", repositories[k].id, 0>>

\* reset_cache returned after re-cloning two GIT refs, one of which had
\* uncommitted changes and one of which had no copy.
C14_Witness ==
    /\ syncOp = "reset"
    /\ syncResult = "returned"
    /\ \E k \in 1..Len(repositories), j \in 1..Len(repositories) :
         /\ k # j
         /\ clones0[repositories[k].id] = "dirty"
         /\ CommandsOf(repositories[k].id) = <<"rmtree", "clone">>
         /\ clones0[repositories[j].id] = "absent"
         /\ CommandsOf(repositories[j].id) = <<"clone">>

(***************************************************************************)
(* Properties of RecipeContext construction (specification ConstructSpec). *)
(***************************************************************************)
\* Every field was read.
AllFieldsRead == Len(values) = Len(Fields)

\* C15: constructing a RecipeDescription from sources and sha256sums of
\* different lengths fails: the construction of the context raises and the
\* context has no description, so create_package cannot be called on it and
\* no stage starts. Every description there is, and every one a pipeline
\* runs on, has as many sources as checksums.
C15_MismatchedLengthsNeverConstruct ==
    /\ (ctorPc = "done" /\ AllFieldsRead
            /\ ValueOf("sources").words # ValueOf("sha256sums").words) =>
          /\ ctorResult = "raised"
          /\ description = NoDescription
          /\ pc = "idle"
    /\ ctorResult = "constructed" <=> description.assigned
    /\ description.assigned =>
          /\ description.sources = description.sha256sums
          /\ description.sources = ValueOf("sources").words
          /\ description.sha256sums = ValueOf("sha256sums").words
    /\ pc # "idle" =>
          /\ description.assigned
          /\ nsources = description.sources
          /\ nsums = description.sha256sums
          /\ nsources = nsums

\* Every field was read, two sources and one checksum, and the construction
\* was refused.
C15_Witness ==
    /\ ctorPc = "done"
    /\ AllFieldsRead
    /\ ValueOf("sources").words = 2
    /\ ValueOf("sha256sums").words = 1
    /\ ctorResult = "raised"

\* The i-th read gave a value (reads that give none end the construction, so
\* the values are those of the first reads).
ReadGaveValue(i) == i <= Len(values)

\* C16 as stated, with a function alone always giving the value: a read of a
\* field with both a variable and a function fails without calling the
\* function, with only a function it calls the function and the output is
\* the value, with only a variable the variable's value is the value, with
\* neither it fails.
C16_FourCasesByDefinitions ==
    \A i \in 1..Len(reads) :
        LET r == reads[i] IN
        /\ (r.var /\ r.fn) => (~ReadGaveValue(i) /\ r.field \notin invoked)
        /\ (~r.var /\ r.fn) =>
              /\ r.field \in invoked
              /\ ReadGaveValue(i)
              /\ values[i].from = "function"
        /\ (r.var /\ ~r.fn) =>
              /\ ReadGaveValue(i)
              /\ values[i].from = "variable"
              /\ r.field \notin invoked
        /\ (~r.var /\ ~r.fn) => (~ReadGaveValue(i) /\ r.field \notin invoked)

\* C16: a read of a field with both a variable and a function fails without
\* calling the function; with only a function it calls the function, and
\* the output is the value if the function ends with status 0, while the
\* read fails if it ends with another status; with only a variable the
\* variable's value is the value and no function is called; with neither
\* the read fails. A failed read ends the construction with an error.
C16_FourCasesAndFunctionStatus ==
    \A i \in 1..Len(reads) :
        LET r == reads[i] IN
        /\ (r.var /\ r.fn) => (~ReadGaveValue(i) /\ r.field \notin invoked)
        /\ (~r.var /\ r.fn) =>
              /\ r.field \in invoked
              /\ ReadGaveValue(i) <=> r.exit = 0
              /\ ReadGaveValue(i) => values[i].from = "function"
        /\ (r.var /\ ~r.fn) =>
              /\ ReadGaveValue(i)
              /\ values[i].from = "variable"
              /\ r.field \notin invoked
        /\ (~r.var /\ ~r.fn) => (~ReadGaveValue(i) /\ r.field \notin invoked)
        /\ ~ReadGaveValue(i) => (i = Len(reads) /\ ctorResult = "raised")

\* The construction read a field from a variable and one from a function,
\* and then met a field with both a variable and a function.
C16_Witness ==
    /\ Len(reads) >= 3
    /\ \E i \in 1..Len(values) : values[i].from = "variable"
    /\ \E i \in 1..Len(values) : values[i].from = "function"
    /\ reads[Len(reads)].var
    /\ reads[Len(reads)].fn
    /\ ctorResult = "raised"

\* The fields read so far, in the order of the reads.
FieldsRead == [i \in 1..Len(reads) |-> reads[i].field]

\* C17: the construction reads the fields in the order name, version,
\* release, url, licenses, dependencies, build_dependencies, sources,
\* sha256sums, package_options; a read that fails is the last one, the
\* construction ends there with an error, and the context has no
\* description, which is assigned only after all ten reads gave a value.
C17_FieldsInOrderAbortAtFailure ==
    /\ Len(reads) <= Len(Fields)
    /\ FieldsRead = SubSeq(Fields, 1, Len(reads))
    /\ Fields = <<"name", "version", "release", "url", "licenses",
                  "dependencies", "build_dependencies", "sources",
                  "sha256sums", "package_options">>
    /\ Len(values) \in {Len(reads), Len(reads) - 1}
    /\ Len(values) < Len(reads) =>
          /\ ctorPc = "done"
          /\ ctorResult = "raised"
          /\ description = NoDescription
          /\ pc = "idle"
    /\ description.assigned => AllFieldsRead

\* The read of sources failed after seven reads that gave a value; nothing
\* was read after it.
C17_Witness ==
    /\ Len(reads) = 8
    /\ Len(values) = 7
    /\ reads[8].field = "sources"
    /\ ctorPc = "done"
    /\ ctorResult = "raised"

(***************************************************************************)
(* Further properties of create_package (specification Spec).              *)
(***************************************************************************)
\* The positions of an event in the log, and whether it is logged at all.
PositionsOf(ev) == { i \in 1..Len(log) : log[i] = ev }
Logged(ev) == PositionsOf(ev) # {}

\* C18: with the skip toggle set no subprocess is started for the check
\* stage and handle_check is never called, and the pipeline goes from a
\* build that ended normally to the package stage. With the toggle unset
\* the check subprocess runs exactly once in a pipeline that gets past the
\* build, after the build ended and before the package stage starts, and
\* when the recipe declares no handle_check the stage ends normally without
\* calling anything.
C18_CheckSkippedOrOnce ==
    LET subprocesses == PositionsOf(Ev("subprocess", "handle_check"))
        hooks == PositionsOf(Ev("hook", "handle_check"))
    IN
    /\ cfg.skip_package_check =>
          /\ subprocesses = {}
          /\ hooks = {}
          /\ failed # "check"
          /\ \A i \in PositionsOf(Ev("start", "check")) :
                /\ log[i - 1] = Ev("ok", "build")
                /\ i < Len(log) => log[i + 1] = Ev("ok", "check")
                /\ i + 1 < Len(log) => log[i + 2] = Ev("start", "package")
          /\ (Logged(Ev("ok", "build")) /\ pc # "check") =>
                (pc = "package" \/ Logged(Ev("start", "package")))
    /\ ~cfg.skip_package_check =>
          /\ Cardinality(subprocesses) <= 1
          /\ Cardinality(hooks) <= 1
          /\ (Logged(Ev("ok", "build")) /\ pc # "check") => subprocesses # {}
          /\ \A i \in subprocesses :
                /\ \E j \in PositionsOf(Ev("ok", "build")) : j < i
                /\ \A j \in PositionsOf(Ev("start", "package")) : i < j
                /\ \A j \in PositionsOf(Ev("hook", "handle_build")) : j < i
                /\ \A j \in PositionsOf(Ev("hook", "handle_package")) : i < j
                /\ log[i + 1] = Ev("hook", "handle_check")
                      \/ log[i + 1] = Ev("ok", "check")
          /\ \A i \in hooks : log[i - 1] = Ev("subprocess", "handle_check")

\* The toggle is set, handle_build ran and the package stage started right
\* after the check stage was passed over.
C18_Witness ==
    /\ cfg.skip_package_check
    /\ Logged(Ev("hook", "handle_build"))
    /\ Logged(Ev("ok", "check"))
    /\ Logged(Ev("hook", "handle_package"))

\* C19: the archive of a successful build is created only after the
\* handle_package step and after the manifest, the fingerprint and the
\* metadata record were written into package/, in that order, so that the
\* archive of a package stage that ended normally holds those three files
\* together with what handle_package put into package/.
C19_ArchiveAfterHookAndWrites ==
    /\ \A t \in PositionsOf(Ev("tar", "archive")) :
          /\ t > Len(ReservedFiles) + 1
          /\ \A i \in 1..Len(ReservedFiles) :
                log[t - Len(ReservedFiles) - 1 + i] = Ev("write", ReservedFiles[i])
          /\ \E h \in PositionsOf(Ev("subprocess", "handle_package")) :
                h < t - Len(ReservedFiles)
          /\ \A h \in PositionsOf(Ev("hook", "handle_package")) :
                h < t - Len(ReservedFiles)
    /\ Logged(Ev("ok", "package")) =>
          /\ Logged(Ev("tar", "archive"))
          /\ \A i \in 1..Len(ReservedFiles) : ReservedFiles[i] \in archive
          /\ Logged(Ev("hook", "handle_package")) => "payload" \in archive

\* C20: in every build whose sources stage ended normally, that is with all
\* declared sources obtained and verified, the handle_sources step ran
\* exactly once, after the last source and before the build stage started,
\* whatever the number of declared sources, zero included.
C20_SourcesHookRunsOnce ==
    Logged(Ev("ok", "sources")) =>
        LET steps == PositionsOf(Ev("subprocess", "handle_sources")) IN
        /\ Cardinality(steps) = 1
        /\ \A h \in steps :
              /\ \A i \in 1..Len(log) : log[i][1] = "source" => i < h
              /\ \A i \in PositionsOf(Ev("start", "build")) : h < i
              /\ Cardinality({ i \in 1..Len(log) : log[i][1] = "source" }) = nsources

\* C22: when the workspace stage fails because the root exists and
\* deletion-of-existing was not asked for, the root that was there and what
\* it holds stay as they were, through the cleanup and to the end of
\* create_package: the run removes no workspace it did not create.
C22_ForeignWorkspaceUntouched ==
    (pre.exists /\ ~cfg.package_delete_workspace) =>
        /\ made = {}
        /\ ws = pre

\* C23: a handle_package function that ends with a non-zero status fails the
\* package stage: the stage does not end normally, no archive is written to
\* the output location, and create_package raises.
C23_FailedPackageHookFailsBuild ==
    Logged(Ev("nonzero", "handle_package")) =>
        /\ failed = "package"
        /\ ~Logged(Ev("ok", "package"))
        /\ archive = "none"
        /\ pc = "done" => result = "raised"

\* C24: a source that none of the three rules (URL, existing path, path
\* beside the recipe) resolves always fails the sources stage, whatever
\* source/ already holds under its base name: the step for such a source is
\* followed at once by the failure of the stage, no later source is taken
\* and no hook runs.
C24_UnresolvedSourceFails ==
    \A i \in PositionsOf(Ev("source", "unresolved")) :
        /\ i < Len(log)
        /\ log[i + 1] = Ev("fail", "sources")
        /\ failed = "sources"
        /\ ~HookRan

(***************************************************************************)
(* Further properties of update_cache (specification SyncSpec).            *)
(***************************************************************************)
\* The refs of the configured list that update_cache has gone through
\* without an error.
DoneRefs ==
    { k \in 1..Len(repositories) :
        k < syncIdx \/ (k = syncIdx /\ syncResult # "raised") }

\* During update_cache: the commands follow the configured order of the
\* refs, after the creation of the cache root if there is one; a command
\* that exits non-zero is the last one run and makes the operation raise;
\* no ref after the failing one is touched; the refs gone through before
\* hold an up-to-date copy.
UpdateStopsAtFirstFailure ==
    syncOp = "update" =>
        /\ cacheRoot
        /\ \A i \in 1..Len(gitlog), j \in 1..Len(gitlog) :
              i < j => PositionOf(gitlog[i][2]) <= PositionOf(gitlog[j][2])
        /\ \A i \in 1..Len(gitlog) :
              gitlog[i][3] # 0 =>
                 /\ i = Len(gitlog)
                 /\ syncResult = "raised"
                 /\ PositionOf(gitlog[i][2]) = syncIdx
        /\ syncResult = "raised" =>
              /\ Len(gitlog) > 0
              /\ gitlog[Len(gitlog)][3] # 0
        /\ \A k \in 1..Len(repositories) :
              /\ k > syncIdx =>
                    /\ EventsOf(repositories[k].id) = <<>>
                    /\ clones[repositories[k].id] = clones0[repositories[k].id]
              /\ (k \in DoneRefs /\ repositories[k].type = "GIT") =>
                    /\ clones[repositories[k].id] = "clean"
                    /\ EventsOf(repositories[k].id) # <<>>

\* The step that starts update_cache makes a missing cache root, before
\* any command on a ref, and nothing else; a later step leaves the copies
\* of the refs gone through before as they are.
UpdateStepKeepsEarlierRefs ==
    /\ (syncOp = "none" /\ syncOp' = "update") =>
          /\ cacheRoot'
          /\ clones' = clones
          /\ gitlog' = IF cacheRoot THEN <<>>
                       ELSE << <<"makedirs", <<"root">>, 0>> >>
    /\ syncOp = "update" =>
          /\ cacheRoot'
          /\ \A k \in DoneRefs :
                clones'[repositories[k].id] = clones[repositories[k].id]
          /\ syncResult = "raised" => UNCHANGED <<clones, gitlog, syncResult>>

\* C26: update_cache goes through the refs in configured order and stops at
\* the first ref whose clone, change check or pull fails: nothing is run for
\* a later ref, the refs gone through before keep their updated copy, and
\* the error is raised. A missing cache root is made before any ref is
\* touched.
C26_UpdateStopsAtFirstFailure ==
    /\ []UpdateStopsAtFirstFailure
    /\ [][UpdateStepKeepsEarlierRefs]_vars

\* update_cache made the cache root, cloned one GIT ref and raised at the
\* clone of the next one, with a ref still to come that it did not touch.
C26_Witness ==
    /\ syncOp = "update"
    /\ syncResult = "raised"
    /\ Len(gitlog) = 3
    /\ gitlog[1][1] = "makedirs"
    /\ gitlog[2][1] = "clone" /\ gitlog[2][3] = 0
    /\ gitlog[3][1] = "clone" /\ gitlog[3][3] # 0
    /\ syncIdx < Len(repositories)

(***************************************************************************)
(* Properties of write_file_info (specification ManifestSpec).             *)
(***************************************************************************)
\* The regular files under the root whose name is not reserved.
PackagedFiles ==
    { e \in mfTree : e.kind = "file" /\ BaseName(e.path) \notin FileIgnoreList }

\* C21: write_file_info on a directory writes a manifest with exactly one
\* line for every regular file under the root, at any depth, whose name is
\* not .file_info, .hash or .package_info, and no line for a reserved file,
\* a directory or any other entry; on a path that is no directory it raises
\* and writes no manifest.
C21_ManifestListsPackagedFiles ==
    mfPc = "done" =>
        IF mfRoot = "dir"
        THEN /\ mfResult = "returned"
             /\ manifest.written
             /\ \E e \in mfTree : e.path = <<FileInfoFileName>>
             /\ Len(manifest.lines) = Len(mfWrote)
             /\ \A i \in 1..Len(mfWrote), j \in 1..Len(mfWrote) :
                   i # j => mfWrote[i] # mfWrote[j]
             /\ { mfWrote[i] : i \in 1..Len(mfWrote) }
                   = { e.path : e \in PackagedFiles }
             /\ \A i \in 1..Len(mfWrote) :
                   \E e \in PackagedFiles :
                      /\ e.path = mfWrote[i]
                      /\ manifest.lines[i].hash = e.content
        ELSE /\ mfResult = "raised"
             /\ manifest = NoManifest
             /\ mfTree = {}

\* The manifest of a root with a reserved file and a directory holding a
\* file has its line for the file in the directory.
C21_Witness ==
    /\ mfPc = "done"
    /\ mfResult = "returned"
    /\ \E e \in mfTree : e.path # <<FileInfoFileName>> /\ Ignored(e)
    /\ \E i \in 1..Len(mfWrote) : Len(mfWrote[i]) = 2

\* C25: in a manifest the filename field identifies the file: two distinct
\* regular files under the root have lines with different filename fields,
\* and no file of a directory under the root whose name is not reserved is
\* left out.
C25_FilenameIdentifiesFile ==
    mfResult = "returned" =>
        /\ \A i \in 1..Len(manifest.lines), j \in 1..Len(manifest.lines) :
              i # j => manifest.lines[i].name # manifest.lines[j].name
        /\ \A e \in PackagedFiles : \E i \in 1..Len(mfWrote) : mfWrote[i] = e.path
====
